---- MODULE Spec2Model ----
(***************************************************************************)
(* Image upload pipeline of vans_story_image: the POST /api/upload         *)
(* handlers (route.ts and the API-key variant), validateApiKey,            *)
(* convertToWebP and uploadToS3, as a state machine over concurrently      *)
(* in-flight requests.                                                     *)
(*                                                                         *)
(* Text that the code inspects character by character (header values,      *)
(* storage keys, URLs, timestamps, hexadecimal strings) is a sequence of   *)
(* one-character strings.  Human-readable messages, which the code only    *)
(* compares and concatenates, are strings; the Korean literals of the      *)
(* source are written in English and quoted in the comments.               *)
(***************************************************************************)
EXTENDS Integers, Sequences, FiniteSets, TLC

VARIABLES
  env,     \* process.env: the configuration the process was started with
  s3Clients, \* the S3Client instances constructed so far, in order
  now,     \* the wall clock, in ticks
  inbox,   \* per request: the HTTP request (or library call) as received
  pc,      \* per request: the await the handler is suspended at
  log,     \* per request: the calls made so far, in order, the collaborator
           \* calls that threw ("formData:throw", ...) and the error objects
           \* constructed ("new ImageProcessingError", "new S3UploadError")
  thrown,  \* per request: the error the caller of the failed step caught
  codec,   \* per request: what the codec engine was asked to do
  gen,     \* per request: the clock reading and random draw of the generated key
  cmd,     \* per request: the PutObjectCommand handed to s3Client.send
  resp,    \* per request: the response returned to the routing layer
  store,   \* the bucket: the objects written, by key
  lost     \* the requests whose stored object a later upload overwrote

vars == <<env, s3Clients, now, inbox, pc, log, thrown, codec, gen, cmd, resp, store, lost>>

(***************************************************************************)
(* Bounds of the model.                                                    *)
(***************************************************************************)
\* the wall clock advances at most MaxTick times, TickMs milliseconds each
MaxTick == 2
TickMs == 500

\* the requests (or library calls) in flight together: every property checked
\* here is about one request or about a pair of them
Reqs == {1, 2}

(***************************************************************************)
(* Optional values: undefined / null, or a text.                           *)
(***************************************************************************)
None == [some |-> FALSE, val |-> <<>>]
Some(s) == [some |-> TRUE, val |-> s]
\* JavaScript truthiness of an optional string: null, undefined and '' are falsy
Truthy(o) == o.some /\ o.val # <<>>

Min(a, b) == IF a < b THEN a ELSE b

\* String.prototype.startsWith
StartsWith(s, p) == Len(s) >= Len(p) /\ SubSeq(s, 1, Len(p)) = p
\* String.prototype.endsWith
EndsWith(s, p) == Len(s) >= Len(p) /\ SubSeq(s, Len(s) - Len(p) + 1, Len(s)) = p
\* String.prototype.substring(from) and substring(from, to), 0-based, to exclusive
SubstringFrom(s, from) == SubSeq(s, Min(from, Len(s)) + 1, Len(s))
Substring(s, from, to) == SubSeq(s, Min(from, Len(s)) + 1, Min(to, Len(s)))

\* the characters of s that are not in the set cs: s.replace(/[cs]/g, '')
RECURSIVE RemoveAll(_, _)
RemoveAll(s, cs) ==
  IF s = <<>> THEN <<>>
  ELSE (IF Head(s) \in cs THEN <<>> ELSE <<Head(s)>>) \o RemoveAll(Tail(s), cs)

\* s.replace(c, d) with a string pattern: only the first occurrence is replaced
RECURSIVE ReplaceFirst(_, _, _)
ReplaceFirst(s, c, d) ==
  IF s = <<>> THEN <<>>
  ELSE IF Head(s) = c THEN <<d>> \o Tail(s)
  ELSE <<Head(s)>> \o ReplaceFirst(Tail(s), c, d)

Digits == <<"0", "1", "2", "3", "4", "5", "6", "7", "8", "9">>
Digit(n) == Digits[n + 1]
Pad2(n) == <<Digit((n \div 10) % 10), Digit(n % 10)>>
Pad3(n) == <<Digit((n \div 100) % 10), Digit((n \div 10) % 10), Digit(n % 10)>>

(***************************************************************************)
(* The wall clock.  `now' counts ticks; the instant it stands for is       *)
(* 2024-03-15T14:30:22.000Z plus now * TickMs milliseconds.                *)
(***************************************************************************)
BaseDate == <<"2", "0", "2", "4", "-", "0", "3", "-", "1", "5">>
BaseMsOfDay == ((14 * 60 + 30) * 60 + 22) * 1000
MsOfDay(t) == BaseMsOfDay + t * TickMs

\* Date.prototype.toISOString: YYYY-MM-DDTHH:mm:ss.sssZ
ToISOString(t) ==
  LET ms == MsOfDay(t)
      h  == (ms \div 3600000) % 24
      m  == (ms \div 60000) % 60
      s  == (ms \div 1000) % 60
  IN  BaseDate \o <<"T">> \o Pad2(h) \o <<":">> \o Pad2(m) \o <<":">> \o Pad2(s)
        \o <<".">> \o Pad3(ms % 1000) \o <<"Z">>

\* the wall-clock second an instant lies in
SecondOf(t) == MsOfDay(t) \div 1000

(***************************************************************************)
(* Messages.  The source's literals, in order:                             *)
(*   route.ts:108 '이미지 파일이 필요합니다.'                               *)
(*   route.ts:116 '파일 크기는 5MB를 초과할 수 없습니다.'                    *)
(*   route.ts:167 '이미지 업로드 중 에러가 발생했습니다.'                    *)
(*   route.ts:151 '이미지 처리 오류: '      route.ts:157 'S3 업로드 오류: '  *)
(*   webpConverter.ts:107 '품질은 1-100 사이의 값이어야 합니다.'             *)
(*   webpConverter.ts:134 '이미지 변환 중 오류가 발생했습니다.'              *)
(*   s3Uploader.ts:139 '환경 변수가 누락되었습니다.'                        *)
(*   s3Uploader.ts:164 'S3 업로드 중 오류가 발생했습니다.'                  *)
(*   auth.ts:45 'API 키가 설정되지 않았습니다.'                             *)
(*   auth.ts:73 'API 키가 필요합니다. ...'                                  *)
(*   auth.ts:81 '유효하지 않은 API 키입니다.'                               *)
(***************************************************************************)
MsgFileRequired == "image file is required"
MsgTooLarge == "file size cannot exceed 5MB"
MsgUploadFailed == "an error occurred while uploading the image"
PrefixImageProcessing == "image processing error: "
PrefixS3Upload == "S3 upload error: "
MsgQualityRange == "quality must be a value between 1 and 100"
MsgConvertFailed == "an error occurred while converting the image"
MsgEnvMissing == "environment variables are missing"
MsgS3Failed == "an error occurred while uploading to S3"
MsgApiKeyNotConfigured == "API key is not configured"
MsgApiKeyRequired == "API key is required"
MsgApiKeyInvalid == "invalid API key"
\* messages of the errors the collaborators raise
MsgSharp == "Input buffer contains unsupported image format"
MsgS3 == "Access Denied"
\* what request.formData() and file.arrayBuffer() reject with, and the TypeError
\* of calling arrayBuffer on a value that has no such method
MsgFormData == "Failed to parse body as FormData"
MsgArrayBuffer == "The requested file could not be read"
MsgNotAFunction == "file.arrayBuffer is not a function"

(***************************************************************************)
(* Errors: the class name, the message and the code.                       *)
(***************************************************************************)
NoError == [name |-> "none", message |-> "", code |-> ""]
\* what a collaborator throws: an Error instance, or a value that is no Error
ErrorOf(m) == [name |-> "Error", message |-> m, code |-> ""]
NonError == [name |-> "non-Error", message |-> "", code |-> ""]
\* errors.ts:129, errors.ts:259  the code of an error constructed without one
DefaultImageProcessingCode == "IMAGE_PROCESSING_ERROR"
DefaultS3UploadCode == "S3_UPLOAD_ERROR"
\* errors.ts: class ImageProcessingError / S3UploadError extends Error; the
\* utilities construct them with a message only (webpConverter.ts:107, 133,
\* s3Uploader.ts:139, 163)
ImageProcessingError(m) ==
  [name |-> "ImageProcessingError", message |-> m, code |-> DefaultImageProcessingCode]
S3UploadError(m) ==
  [name |-> "S3UploadError", message |-> m, code |-> DefaultS3UploadCode]
\* error instanceof Error: the two classes extend Error
InstanceOfError(e) == e.name \in {"Error", "ImageProcessingError", "S3UploadError"}

(***************************************************************************)
(* validateApiKey (auth.ts)                                                *)
(***************************************************************************)
BearerPrefix == <<"B", "e", "a", "r", "e", "r", " ">>

\* auth.ts:53-56  the key of an `Authorization: Bearer <key>' header
BearerKey(authHeader) ==
  IF Truthy(authHeader) /\ StartsWith(authHeader.val, BearerPrefix)
  THEN Some(SubstringFrom(authHeader.val, 7))
  ELSE None

\* the X-API-Key header taking precedence over the Bearer key
HeaderKeyFirst(provided, xApiKey) == IF Truthy(xApiKey) THEN xApiKey ELSE provided

\* auth.ts:58-61  fall back to the X-API-Key header
OrHeaderKey(provided, xApiKey) == IF ~Truthy(provided) THEN xApiKey ELSE provided

\* auth.ts:63-67  fall back to the query parameter api_key
OrQueryKey(provided, apiKeyParam) == IF ~Truthy(provided) THEN apiKeyParam ELSE provided

\* auth.ts:50-67  providedApiKey after the three extraction steps
ProvidedApiKey(request) ==
  OrQueryKey(OrHeaderKey(BearerKey(request.authorization), request.xApiKey),
             request.apiKey)

\* the key check without the comparison with the secret
ValidateApiKeyAnyKey(request, e) ==
  IF ~Truthy(e.IMAGE_ROUTE_API_KEY)
    THEN [success |-> FALSE, error |-> MsgApiKeyNotConfigured]
  ELSE IF ~Truthy(ProvidedApiKey(request))
    THEN [success |-> FALSE, error |-> MsgApiKeyRequired]
  ELSE [success |-> TRUE, error |-> ""]

\* auth.ts:37-88
ValidateApiKey(request, e) ==
  LET apiSecretKey == e.IMAGE_ROUTE_API_KEY
      providedApiKey == ProvidedApiKey(request)
  IN  IF ~Truthy(apiSecretKey)
        THEN [success |-> FALSE, error |-> MsgApiKeyNotConfigured]
      ELSE IF ~Truthy(providedApiKey)
        THEN [success |-> FALSE, error |-> MsgApiKeyRequired]
      ELSE IF providedApiKey.val # apiSecretKey.val
        THEN [success |-> FALSE, error |-> MsgApiKeyInvalid]
      ELSE [success |-> TRUE, error |-> ""]

(***************************************************************************)
(* convertToWebP (webpConverter.ts)                                        *)
(***************************************************************************)
DefaultQuality == 80

\* webpConverter.ts:98-103  the destructuring defaults
QualityOf(options) == IF options.quality.given THEN options.quality.q ELSE DefaultQuality

\* the range check with the lower end off by one
QualityBelowZero(quality) == quality < 0 \/ quality > 100

\* webpConverter.ts:106  the range check that guards the codec
QualityOutOfRange(quality) == quality < 1 \/ quality > 100

\* a resize asked for only when both dimensions are given
WantsResizeBoth(options) == options.width # 0 /\ options.height # 0

\* webpConverter.ts:117  width || height  (null and 0 are falsy)
WantsResize(options) == options.width # 0 \/ options.height # 0

\* webpConverter.ts:114-130  what the codec engine is asked to do
SharpCall(buffer, options) ==
  [input   |-> buffer,
   quality |-> QualityOf(options),
   resize  |-> IF WantsResize(options)
               THEN [width |-> options.width, height |-> options.height,
                     fit |-> "inside", withoutEnlargement |-> TRUE]
               ELSE [width |-> 0, height |-> 0,
                     fit |-> "none", withoutEnlargement |-> FALSE]]

\* the buffer sharp returns for a call: the input transcoded as asked
WebpBuffer(call) == [webpOf |-> call.input, quality |-> call.quality]
NoBuffer == [webpOf |-> "", quality |-> 0]

\* webpConverter.ts:131-136  every failure is wrapped into ImageProcessingError
WrapImageProcessing(error) ==
  ImageProcessingError(IF InstanceOfError(error) THEN error.message ELSE MsgConvertFailed)

(***************************************************************************)
(* uploadToS3 (s3Uploader.ts)                                              *)
(***************************************************************************)
ImagesPrefix == <<"i", "m", "a", "g", "e", "s", "/">>
DotWebp == <<".", "w", "e", "b", "p">>
ImageWebp == <<"i", "m", "a", "g", "e", "/", "w", "e", "b", "p">>

\* the environment check without the region
EnvMissingButRegion(e) ==
  \/ ~Truthy(e.AWS_ACCESS_KEY_ID)
  \/ ~Truthy(e.AWS_SECRET_ACCESS_KEY)
  \/ ~Truthy(e.S3_BUCKET_NAME)

\* s3Uploader.ts:138  a coordinate of the store is absent or empty
EnvMissing(e) ==
  \/ ~Truthy(e.AWS_ACCESS_KEY_ID)
  \/ ~Truthy(e.AWS_SECRET_ACCESS_KEY)
  \/ ~Truthy(e.AWS_REGION)
  \/ ~Truthy(e.S3_BUCKET_NAME)

\* s3Uploader.ts:143  new Date().toISOString().replace(/[-:]/g, '').replace('T', '_').substring(0, 15)
Timestamp(t) ==
  Substring(ReplaceFirst(RemoveAll(ToISOString(t), {"-", ":"}), "T", "_"), 0, 15)

\* Number.prototype.toString(16) of a Math.random() value, given the
\* hexadecimal digits of its fraction (none for the value 0)
ToString16(fraction) == IF fraction = <<>> THEN <<"0">> ELSE <<"0", ".">> \o fraction

\* Math.random(): the hexadecimal digits of the fraction drawn.  Two draws
\* that agree in their first eight digits, and the draw 0.5
RandomDraws == {<<"a", "1", "b", "2", "c", "3", "d", "4", "e", "5", "f", "6", "7">>,
                <<"a", "1", "b", "2", "c", "3", "d", "4", "f", "f", "f", "f", "1">>,
                <<"8">>}

\* the random string without the end index of substring
RandomStringUncut(fraction) == SubstringFrom(ToString16(fraction), 2)

\* s3Uploader.ts:144  Math.random().toString(16).substring(2, 10)
RandomString(fraction) == Substring(ToString16(fraction), 2, 10)

\* s3Uploader.ts:145  options.prefix || 'images/'
PrefixOf(options) == IF Truthy(options.prefix) THEN options.prefix.val ELSE ImagesPrefix

\* the key derived from the original file name instead of the random string
FileNameFromOriginal(options, t, fraction) ==
  PrefixOf(options) \o Timestamp(t) \o <<"_">> \o options.metadata.originalName \o DotWebp

\* s3Uploader.ts:145  `${prefix}${timestamp}_${randomString}.webp`
FileName(options, t, fraction) ==
  PrefixOf(options) \o Timestamp(t) \o <<"_">> \o RandomString(fraction) \o DotWebp

\* s3Uploader.ts:148-154
PutObjectCommand(e, fileName, fileBuffer, options) ==
  [Bucket      |-> e.S3_BUCKET_NAME.val,
   Key         |-> fileName,
   Body        |-> fileBuffer,
   ContentType |-> options.contentType,
   Metadata    |-> options.metadata]
NoCommand ==
  [Bucket |-> <<>>, Key |-> <<>>, Body |-> NoBuffer, ContentType |-> None,
   Metadata |-> [given |-> FALSE, originalName |-> <<>>, originalType |-> <<>>]]

\* the URL with bucket and region in each other's place
ObjectUrlSwapped(e, fileName) ==
  <<"h", "t", "t", "p", "s", ":", "/", "/">> \o e.AWS_REGION.val \o <<".", "s", "3", ".">> \o e.S3_BUCKET_NAME.val
    \o <<".", "a", "m", "a", "z", "o", "n", "a", "w", "s", ".", "c", "o", "m", "/">> \o fileName

\* s3Uploader.ts:160
ObjectUrl(e, fileName) ==
  <<"h", "t", "t", "p", "s", ":", "/", "/">> \o e.S3_BUCKET_NAME.val \o <<".", "s", "3", ".">> \o e.AWS_REGION.val
    \o <<".", "a", "m", "a", "z", "o", "n", "a", "w", "s", ".", "c", "o", "m", "/">> \o fileName

\* s3Uploader.ts:161-166  every failure is wrapped into S3UploadError
\* a wrap that puts the category prefix into the message itself
WrapS3UploadPrefixed(error) ==
  S3UploadError(PrefixS3Upload \o
                (IF InstanceOfError(error) THEN error.message ELSE MsgS3Failed))

WrapS3Upload(error) ==
  S3UploadError(IF InstanceOfError(error) THEN error.message ELSE MsgS3Failed)

(***************************************************************************)
(* The POST handlers (route.ts:101, route.ts:288, the API-key variant)     *)
(***************************************************************************)
MaxFileSize == 5 * 1024 * 1024

\* route.ts:103-106  !file, file being formData.get('image') cast to File: null
\* when the field is absent, a string when the field is a text field, and
\* only null and the empty string are falsy
FileMissing(file) == file.kind = "none" \/ (file.kind = "text" /\ file.bytes = "")

\* the size check with the ceiling itself rejected
FileTooLargeInclusive(file) == file.size >= MaxFileSize

\* route.ts:114  file.size > 5 * 1024 * 1024; a string has no size, and
\* undefined > n is false
FileTooLarge(file) == file.kind = "file" /\ file.size > MaxFileSize

\* route.ts:131  file.name.replace(/\.[^/.]+$/, ''): the last dot and what
\* follows it are dropped when one or more characters, none a slash, follow
StripExtension(name) ==
  LET dots == {i \in 1..Len(name) : name[i] = "."}
  IN  IF dots = {} THEN name
      ELSE LET i == CHOOSE j \in dots : \A k \in dots : k <= j
               suffix == SubSeq(name, i + 1, Len(name))
           IN  IF suffix # <<>> /\ \A k \in 1..Len(suffix) : suffix[k] # "/"
               THEN SubSeq(name, 1, i - 1)
               ELSE name

\* route.ts:126-128  the conversion options of the handlers
HandlerConvertOptions == [quality |-> [given |-> TRUE, q |-> 85], width |-> 0, height |-> 0]

\* upload options that keep the file name as it was sent
HandlerUploadOptionsFullName(file) ==
  [contentType |-> Some(ImageWebp),
   prefix      |-> Some(ImagesPrefix),
   metadata    |-> [given |-> TRUE,
                    originalName |-> file.name,
                    originalType |-> file.type]]

\* route.ts:134-141  the upload options of the handlers
HandlerUploadOptions(file) ==
  [contentType |-> Some(ImageWebp),
   prefix      |-> Some(ImagesPrefix),
   metadata    |-> [given |-> TRUE,
                    originalName |-> StripExtension(file.name),
                    originalType |-> file.type]]

\* a header that may be absent: request.headers.get(...) is null then
NoHeader == [some |-> FALSE, val |-> ""]
Header(value) == [some |-> TRUE, val |-> value]

\* route.ts:182-186  ALLOWED_ORIGINS
ALLOWED_ORIGINS ==
  {"http://localhost:3000", "http://localhost:3002", "https://vansdevblog.online"}

\* the response headers of a call that is no HTTP request
NoHeaders == [allowMethods |-> "", allowHeaders |-> "", maxAge |-> "", allowOrigin |-> NoHeader]

\* route.ts:11-16  the fixed corsHeaders of the first handler
corsHeaders ==
  [allowMethods |-> "POST, OPTIONS",
   allowHeaders |-> "Content-Type, Authorization",
   maxAge       |-> "86400",
   allowOrigin  |-> Header("http://localhost:3000, https://vansdevblog.online")]

\* getCorsHeaders answering whatever origin asks
getCorsHeadersReflect(request) ==
  [allowMethods |-> "POST, OPTIONS",
   allowHeaders |-> IF request.handler = "apikey"
                    THEN "Content-Type, Authorization, X-API-Key"
                    ELSE "Content-Type, Authorization",
   maxAge       |-> "86400",
   allowOrigin  |-> request.origin]

\* route.ts:189-203, part_000:19-33  getCorsHeaders: the origin is allowed when
\* the header is there, not empty, and one of ALLOWED_ORIGINS
getCorsHeaders(request) ==
  [allowMethods |-> "POST, OPTIONS",
   allowHeaders |-> IF request.handler = "apikey"
                    THEN "Content-Type, Authorization, X-API-Key"
                    ELSE "Content-Type, Authorization",
   maxAge       |-> "86400",
   allowOrigin  |-> IF request.origin.some /\ request.origin.val # ""
                       /\ request.origin.val \in ALLOWED_ORIGINS
                    THEN Header(request.origin.val)
                    ELSE NoHeader]

\* the headers every response of a handler is given (route.ts:109, 117, 146,
\* 152, 158, 168; route.ts:291; part_000:155)
ResponseHeaders(request) ==
  IF request.handler = "direct" THEN NoHeaders
  ELSE IF request.handler = "static" THEN corsHeaders
  ELSE getCorsHeaders(request)

\* NextResponse.json(body, {status, headers}); a library call records its
\* result with status 0
NoResponse ==
  [status |-> 0, success |-> FALSE, error |-> "", field |-> "none", url |-> <<>>,
   headers |-> NoHeaders]
\* route.ts:19-21, route.ts:206-208  OPTIONS: NextResponse.json({}, {headers})
OptionsResponse == [NoResponse EXCEPT !.status = 200]
JsonError(status, message) == [NoResponse EXCEPT !.status = status, !.error = message]
JsonOk(field, url) ==
  [NoResponse EXCEPT !.status = 200, !.success = TRUE, !.field = field, !.url = url]
Returned(url) == [NoResponse EXCEPT !.success = TRUE, !.field = "return", !.url = url]
Threw(error) == [NoResponse EXCEPT !.error = error.message, !.field = "throw"]

\* route.ts:143-146 'imageUrl', route.ts:357-360 and part_000:232-235 'fileName'
UrlField(handler) == IF handler = "static" THEN "imageUrl" ELSE "fileName"

\* the missing-file answer sent as a server error
MissingFileAs500 == JsonError(500, MsgFileRequired)

\* route.ts:107-110
MissingFileResponse == JsonError(400, MsgFileRequired)
\* route.ts:115-118
TooLargeResponse == JsonError(400, MsgTooLarge)
\* route.ts:163-170  the outer catch
UnexpectedResponse == JsonError(500, MsgUploadFailed)
\* an outer catch that throws the error on: the handler ends without response
OuterCatchRethrow(error) == NoResponse
\* an outer catch that reports what it caught
OuterCatchEcho(error) == JsonError(500, error.message)
\* route.ts:163-170  the outer catch, given the error it caught: the error goes
\* to console.error only
OuterCatch(error) == UnexpectedResponse
\* part_000:167-173
AuthFailedResponse(authResult) == JsonError(401, authResult.error)

\* an inner catch that lets a failed upload pass as a success without URL
CatchResponseSwallowStorage(error) ==
  IF error.name = "ImageProcessingError"
    THEN JsonError(400, PrefixImageProcessing \o error.message)
  ELSE IF error.name = "S3UploadError"
    THEN JsonOk("imageUrl", <<>>)
  ELSE OuterCatch(error)

\* an inner catch that answers storage failures as a server error
CatchResponseStorage500(error) ==
  IF error.name = "ImageProcessingError"
    THEN JsonError(400, PrefixImageProcessing \o error.message)
  ELSE IF error.name = "S3UploadError"
    THEN JsonError(500, PrefixS3Upload \o error.message)
  ELSE OuterCatch(error)

\* route.ts:148-162  the inner catch: the two classes get a prefixed message,
\* anything else is thrown on to the outer catch
CatchResponse(error) ==
  IF error.name = "ImageProcessingError"
    THEN JsonError(400, PrefixImageProcessing \o error.message)
  ELSE IF error.name = "S3UploadError"
    THEN JsonError(400, PrefixS3Upload \o error.message)
  ELSE OuterCatch(error)

\* what the caller of convertToWebP / uploadToS3 does with an error thrown to it
OnThrow(handler, error) == IF handler = "direct" THEN Threw(error) ELSE CatchResponse(error)
\* what the caller of uploadToS3 does with the URL returned to it
OnUrl(handler, url) == IF handler = "direct" THEN Returned(url) ELSE JsonOk(UrlField(handler), url)

\* the options a request's pipeline passes to convertToWebP and uploadToS3
ConvertOptionsOf(request) ==
  IF request.handler = "direct" THEN request.convert ELSE HandlerConvertOptions
UploadOptionsOf(request) ==
  IF request.handler = "direct" THEN request.upload ELSE HandlerUploadOptions(request.file)

(***************************************************************************)
(* Inputs: configurations, files, requests and library calls.              *)
(***************************************************************************)
Key1 == <<"k", "1">>
Key2 == <<"k", "2">>

FullEnv ==
  [AWS_ACCESS_KEY_ID     |-> Some(<<"A", "K", "I", "A">>),
   AWS_SECRET_ACCESS_KEY |-> Some(<<"s", "e", "c", "r", "e", "t">>),
   AWS_REGION            |-> Some(<<"a", "p", "-", "n", "o", "r", "t", "h", "e", "a", "s", "t", "-", "2">>),
   S3_BUCKET_NAME        |-> Some(<<"v", "a", "n", "s">>),
   IMAGE_ROUTE_API_KEY   |-> Some(Key1)]

EnvVars == {"AWS_ACCESS_KEY_ID", "AWS_SECRET_ACCESS_KEY", "AWS_REGION", "S3_BUCKET_NAME"}
\* the full configuration, and those with one coordinate of the store absent or empty
StoreEnvs ==
  {FullEnv} \cup {[FullEnv EXCEPT ![v] = o] : v \in EnvVars, o \in {None, Some(<<>>)}}
\* the configurations of the key check: secret set, absent, empty
AuthEnvs == {[FullEnv EXCEPT !.IMAGE_ROUTE_API_KEY = o] : o \in {Some(Key1), None, Some(<<>>)}}
\* the full configuration and one without bucket name
PipelineEnvs == {FullEnv, [FullEnv EXCEPT !.S3_BUCKET_NAME = None]}

NoFile == [kind |-> "none", name |-> <<>>, type |-> <<>>, size |-> 0, bytes |-> ""]
Photo ==
  [kind |-> "file", name |-> <<"p", "h", "o", "t", "o", ".", "j", "p", "g">>,
   type |-> <<"i", "m", "a", "g", "e", "/", "j", "p", "e", "g">>, size |-> 2048, bytes |-> "photo"]
\* the same upload under another name
Renamed == [Photo EXCEPT !.name = <<"t", "r", "i", "p", ".", "v", "2", ".", "j", "p", "e", "g">>]
\* a file of exactly the size ceiling, and one a byte above it
AtLimit ==
  [kind |-> "file", name |-> <<"l", "i", "m", "i", "t", ".", "p", "n", "g">>,
   type |-> <<"i", "m", "a", "g", "e", "/", "p", "n", "g">>, size |-> MaxFileSize, bytes |-> "limit"]
Oversized == [AtLimit EXCEPT !.size = MaxFileSize + 1, !.bytes = "oversized"]
\* the field `image' sent as a text field: empty, and with a value
EmptyText == [kind |-> "text", name |-> <<>>, type |-> <<>>, size |-> 0, bytes |-> ""]
TextValue == [EmptyText EXCEPT !.bytes = "hello"]
Files == {NoFile, Photo, Renamed, AtLimit, Oversized, EmptyText, TextValue}

NoMetadata == [given |-> FALSE, originalName |-> <<>>, originalType |-> <<>>]
DefaultConvert == [quality |-> [given |-> FALSE, q |-> 0], width |-> 0, height |-> 0]
DefaultUpload == [contentType |-> None, prefix |-> None, metadata |-> NoMetadata]

Bearer(key) == Some(BearerPrefix \o key)
Basic(key) == Some(<<"B", "a", "s", "i", "c", " ">> \o key)

\* an HTTP request to a handler
Request(handler, authorization, xApiKey, apiKey, file) ==
  [method |-> "POST", origin |-> NoHeader,
   handler |-> handler, authorization |-> authorization, xApiKey |-> xApiKey,
   apiKey |-> apiKey, file |-> file, convert |-> DefaultConvert, upload |-> DefaultUpload]

\* a library call convertToWebP(buffer, convert) followed by uploadToS3(result, upload)
Call(convert, upload) ==
  [method |-> "POST", origin |-> NoHeader,
   handler |-> "direct", authorization |-> None, xApiKey |-> None, apiKey |-> None,
   file |-> Photo, convert |-> convert, upload |-> upload]

Handlers == {"static", "cors", "apikey"}

\* requests to the three handlers, with the right key where one is asked for
PipelineRequests ==
  {Request(h, IF h = "apikey" THEN Bearer(Key1) ELSE None, None, None, f) :
     h \in Handlers, f \in Files}
  \cup {Request("apikey", a, None, None, Photo) : a \in {None, Bearer(Key2)}}

\* requests to the API-key handler with every combination of key locations
AuthRequests ==
  {Request("apikey", a, x, q, Photo) :
     a \in {None, Bearer(Key1), Bearer(Key2), Basic(Key1)},
     x \in {None, Some(<<>>), Some(Key1), Some(Key2)},
     q \in {None, Some(Key1)}}

Qualities == {-1, 0, 1, 100, 101}
\* library calls: each quality with the other options left out, each resize
\* and each prefix with the quality left out
LibraryCalls ==
  {Call(DefaultConvert, DefaultUpload)}
  \cup {Call([DefaultConvert EXCEPT !.quality = [given |-> TRUE, q |-> q]], DefaultUpload) :
          q \in Qualities}
  \cup {Call([DefaultConvert EXCEPT !.width = w, !.height = h], DefaultUpload) :
          w \in {0, 800}, h \in {0, 600}}
  \cup {Call(DefaultConvert, [DefaultUpload EXCEPT !.prefix = p]) :
          p \in {Some(<<>>), Some(<<"t", "h", "u", "m", "b", "s", "/">>)}}

(***************************************************************************)
(* Steps.  A handler runs from one await to the next without interruption; *)
(* the steps of different requests interleave at the awaits.               *)
(***************************************************************************)
NoCodec == SharpCall("", [quality |-> [given |-> TRUE, q |-> 0], width |-> 0, height |-> 0])
NoGen == [t |-> 0, fraction |-> <<>>]

\* request r makes `calls', leaving error, codec request, key inputs and
\* command as given, and suspends at `at'
Suspend(r, at, calls, cdc, g, c) ==
  /\ pc' = [pc EXCEPT ![r] = at]
  /\ log' = [log EXCEPT ![r] = @ \o calls]
  /\ codec' = [codec EXCEPT ![r] = cdc]
  /\ gen' = [gen EXCEPT ![r] = g]
  /\ cmd' = [cmd EXCEPT ![r] = c]
  /\ UNCHANGED <<thrown, resp, s3Clients>>

\* request r makes `calls' and ends with response rsp, error being what the
\* failed step threw to its caller (NoError when nothing was thrown)
Finish(r, calls, error, rsp) ==
  /\ pc' = [pc EXCEPT ![r] = "done"]
  /\ log' = [log EXCEPT ![r] = @ \o calls]
  /\ thrown' = [thrown EXCEPT ![r] = error]
  /\ resp' = [resp EXCEPT ![r] = [rsp EXCEPT !.headers = ResponseHeaders(inbox[r])]]
  /\ UNCHANGED <<codec, gen, cmd, s3Clients>>

\* webpConverter.ts:92-130  convertToWebP up to its await of the codec
CallConvertToWebP(r, before, buffer) ==
  LET request == inbox[r]
      options == ConvertOptionsOf(request)
  IN  IF QualityOutOfRange(QualityOf(options))
      THEN LET error == WrapImageProcessing(ImageProcessingError(MsgQualityRange))
           IN  Finish(r, before \o <<"convertToWebP", "new ImageProcessingError",
                                     "new ImageProcessingError">>,
                      error, OnThrow(request.handler, error))
      ELSE Suspend(r, "sharp", before \o <<"convertToWebP", "sharp">>,
                   SharpCall(buffer, options), gen[r], cmd[r])

\* s3Uploader.ts:38-44  new S3Client({region, credentials}) at module load
DefaultRegion == <<"a", "p", "-", "n", "o", "r", "t", "h", "e", "a", "s", "t", "-", "2">>
NewS3Client(e) ==
  [region          |-> IF Truthy(e.AWS_REGION) THEN e.AWS_REGION.val ELSE DefaultRegion,
   accessKeyId     |-> IF Truthy(e.AWS_ACCESS_KEY_ID) THEN e.AWS_ACCESS_KEY_ID.val ELSE <<>>,
   secretAccessKey |-> IF Truthy(e.AWS_SECRET_ACCESS_KEY)
                       THEN e.AWS_SECRET_ACCESS_KEY.val ELSE <<>>]

\* uploadToS3 constructing a storage client of its own for every call
CallUploadToS3NewClient(r, fileBuffer) ==
  LET request == inbox[r]
      options == UploadOptionsOf(request)
  IN  IF EnvMissing(env)
      THEN LET error == WrapS3Upload(S3UploadError(MsgEnvMissing))
           IN  Finish(r, <<"uploadToS3", "new S3UploadError", "new S3UploadError">>,
                      error, OnThrow(request.handler, error))
      ELSE \E fraction \in RandomDraws :
             /\ pc' = [pc EXCEPT ![r] = "send"]
             /\ log' = [log EXCEPT ![r] = @ \o <<"uploadToS3", "send">>]
             /\ gen' = [gen EXCEPT ![r] = [t |-> now, fraction |-> fraction]]
             /\ cmd' = [cmd EXCEPT ![r] =
                          PutObjectCommand(env, FileName(options, now, fraction),
                                           fileBuffer, options)]
             /\ s3Clients' = Append(s3Clients, NewS3Client(env))
             /\ UNCHANGED <<thrown, resp, codec>>

\* s3Uploader.ts:132-157  uploadToS3 up to its await of s3Client.send
CallUploadToS3(r, fileBuffer) ==
  LET request == inbox[r]
      options == UploadOptionsOf(request)
  IN  IF EnvMissing(env)
      THEN LET error == WrapS3Upload(S3UploadError(MsgEnvMissing))
           IN  Finish(r, <<"uploadToS3", "new S3UploadError", "new S3UploadError">>,
                      error, OnThrow(request.handler, error))
      ELSE \E fraction \in RandomDraws :
             Suspend(r, "send", <<"uploadToS3", "send">>, codec[r],
                     [t |-> now, fraction |-> fraction],
                     PutObjectCommand(env, FileName(options, now, fraction),
                                      fileBuffer, options))

\* the handler of the request's method is invoked: OPTIONS answers at once
\* (route.ts:206-208); POST does the key check (part_000:165-173), then
\* request.formData() (route.ts:103); a library call starts with convertToWebP
Invoke(r) ==
  /\ pc[r] = "new"
  /\ LET request == inbox[r]
         authResult == ValidateApiKey(request, env)
     IN  IF request.handler = "direct"
           THEN CallConvertToWebP(r, <<>>, request.file.bytes)
         ELSE IF request.method = "OPTIONS"
           THEN Finish(r, <<>>, NoError, OptionsResponse)
         ELSE IF request.handler = "apikey" /\ ~authResult.success
           THEN Finish(r, <<>>, NoError, AuthFailedResponse(authResult))
         ELSE Suspend(r, "formData", <<"formData">>, codec[r], gen[r], cmd[r])
  /\ UNCHANGED <<env, now, inbox, store, lost>>

\* route.ts:103-122  formData() settles: the presence and size checks, then
\* file.arrayBuffer()
FormDataReturn(r) ==
  /\ pc[r] = "formData"
  /\ LET file == inbox[r].file
     IN  \/ Finish(r, <<"formData:throw">>, ErrorOf(MsgFormData),
                   OuterCatch(ErrorOf(MsgFormData)))
         \/ IF FileMissing(file) THEN Finish(r, <<>>, NoError, MissingFileResponse)
            ELSE IF FileTooLarge(file) THEN Finish(r, <<>>, NoError, TooLargeResponse)
            ELSE IF file.kind = "text"
              THEN Finish(r, <<"arrayBuffer:throw">>, ErrorOf(MsgNotAFunction),
                          OuterCatch(ErrorOf(MsgNotAFunction)))
            ELSE Suspend(r, "arrayBuffer", <<"arrayBuffer">>, codec[r], gen[r], cmd[r])
  /\ UNCHANGED <<env, now, inbox, store, lost>>

\* route.ts:122-128  arrayBuffer() settles: convertToWebP is called
ArrayBufferReturn(r) ==
  /\ pc[r] = "arrayBuffer"
  /\ \/ Finish(r, <<"arrayBuffer:throw">>, ErrorOf(MsgArrayBuffer),
                OuterCatch(ErrorOf(MsgArrayBuffer)))
     \/ CallConvertToWebP(r, <<>>, inbox[r].file.bytes)
  /\ UNCHANGED <<env, now, inbox, store, lost>>

\* webpConverter.ts:125-136, route.ts:130-141  the codec settles: its error
\* is wrapped and thrown, or its buffer is handed to uploadToS3
SharpReturn(r) ==
  /\ pc[r] = "sharp"
  /\ \/ \E e \in {ErrorOf(MsgSharp), NonError} :
          LET error == WrapImageProcessing(e)
          IN  Finish(r, <<"sharp:throw", "new ImageProcessingError">>, error,
                     OnThrow(inbox[r].handler, error))
     \/ CallUploadToS3(r, WebpBuffer(codec[r]))
  /\ UNCHANGED <<env, now, inbox, store, lost>>

\* send settles, a rejected put-object call being issued a second time
SendReturnRetry(r) ==
  /\ pc[r] = "send"
  /\ \/ /\ IF Len(SelectSeq(log[r], LAMBDA c : c = "send")) < 2
             THEN Suspend(r, "send", <<"send:throw", "send">>, codec[r], gen[r], cmd[r])
             ELSE LET error == WrapS3Upload(ErrorOf(MsgS3))
                  IN  Finish(r, <<"send:throw", "new S3UploadError">>, error,
                             OnThrow(inbox[r].handler, error))
        /\ UNCHANGED <<store, lost>>
     \/ /\ Finish(r, <<>>, NoError,
                  OnUrl(inbox[r].handler, ObjectUrl(env, cmd[r].Key)))
        /\ store' = {o \in store : o.Key # cmd[r].Key}
                      \cup {[Key |-> cmd[r].Key, owner |-> r]}
        /\ lost' = lost \cup {o.owner : o \in {x \in store : x.Key = cmd[r].Key}}
  /\ UNCHANGED <<env, now, inbox>>

\* s3Uploader.ts:157-166, route.ts:143-146  send settles: its error is
\* wrapped and thrown, or the object is in the bucket and its URL is returned
SendReturn(r) ==
  /\ pc[r] = "send"
  /\ \/ /\ \E e \in {ErrorOf(MsgS3), NonError} :
               LET error == WrapS3Upload(e)
               IN  Finish(r, <<"send:throw", "new S3UploadError">>, error,
                          OnThrow(inbox[r].handler, error))
        /\ UNCHANGED <<store, lost>>
     \/ /\ Finish(r, <<>>, NoError,
                  OnUrl(inbox[r].handler, ObjectUrl(env, cmd[r].Key)))
        /\ store' = {o \in store : o.Key # cmd[r].Key}
                      \cup {[Key |-> cmd[r].Key, owner |-> r]}
        /\ lost' = lost \cup {o.owner : o \in {x \in store : x.Key = cmd[r].Key}}
  /\ UNCHANGED <<env, now, inbox>>

\* the wall clock advances
Tick ==
  /\ now < MaxTick
  /\ now' = now + 1
  /\ UNCHANGED <<env, s3Clients, inbox, pc, log, thrown, codec, gen, cmd, resp, store, lost>>

Next ==
  \/ \E r \in Reqs : Invoke(r)
  \/ \E r \in Reqs : FormDataReturn(r)
  \/ \E r \in Reqs : ArrayBufferReturn(r)
  \/ \E r \in Reqs : SharpReturn(r)
  \/ \E r \in Reqs : SendReturn(r)
  \/ Tick

\* the state after the process has started and the requests have arrived
InitWith(envs, requests) ==
  /\ env \in envs
  /\ s3Clients = <<NewS3Client(env)>>
  /\ now = 0
  /\ inbox \in [Reqs -> requests]
  /\ pc = [r \in Reqs |-> "new"]
  /\ log = [r \in Reqs |-> <<>>]
  /\ thrown = [r \in Reqs |-> NoError]
  /\ codec = [r \in Reqs |-> NoCodec]
  /\ gen = [r \in Reqs |-> NoGen]
  /\ cmd = [r \in Reqs |-> NoCommand]
  /\ resp = [r \in Reqs |-> NoResponse]
  /\ store = {}
  /\ lost = {}

\* requests to the three handlers
Init == InitWith(PipelineEnvs, PipelineRequests)
Spec == Init /\ [][Next]_vars

\* requests to the API-key handler, under each configuration of the secret
InitAuth == InitWith(AuthEnvs, AuthRequests)
SpecAuth == InitAuth /\ [][Next]_vars

\* library calls and an upload request, under each configuration of the store
InitLib == InitWith(StoreEnvs, LibraryCalls \cup {Request("static", None, None, None, Photo)})
SpecLib == InitLib /\ [][Next]_vars

(***************************************************************************)
(* Properties.                                                             *)
(***************************************************************************)
\* request r has made the call `name' (or recorded the event `name')
Called(r, name) == \E i \in DOMAIN log[r] : log[r][i] = name
\* how often request r has made the call `name'
Count(r, name) == Cardinality({i \in DOMAIN log[r] : log[r][i] = name})
\* request r is handled by one of the POST handlers
IsUpload(r) == inbox[r].handler \in {"static", "cors", "apikey"}
\* the form data of request r has been parsed and handed to the handler
FormDataParsed(r) ==
  /\ pc[r] \notin {"new", "formData"}
  /\ Called(r, "formData")
  /\ ~Called(r, "formData:throw")

\* C1: a request whose image file is larger than 5*1024*1024 bytes is answered
\* with HTTP 400 and the size-exceeded message, and never gets as far as
\* file.arrayBuffer(), convertToWebP or uploadToS3; a file of exactly
\* 5*1024*1024 bytes passes the size check and is read into a buffer.
C1_OversizedRejectedBeforeRead ==
  \A r \in Reqs :
    (IsUpload(r) /\ inbox[r].file.kind = "file") =>
      /\ inbox[r].file.size > 5242880 =>
           /\ ~Called(r, "arrayBuffer")
           /\ ~Called(r, "convertToWebP")
           /\ ~Called(r, "uploadToS3")
           /\ FormDataParsed(r) =>
                /\ pc[r] = "done"
                /\ resp[r].status = 400
                /\ resp[r].error = MsgTooLarge
                /\ ~resp[r].success
      /\ (inbox[r].file.size = 5242880 /\ FormDataParsed(r)) =>
           /\ Called(r, "arrayBuffer")
           /\ resp[r].error # MsgTooLarge

\* C1 witness: one request was rejected for its 5 MiB + 1 byte file while
\* another, with a file of exactly 5 MiB, was stored.
C1_Witness ==
  \E r1, r2 \in Reqs :
    /\ IsUpload(r1) /\ inbox[r1].file.size = 5242881
    /\ pc[r1] = "done" /\ resp[r1].status = 400 /\ resp[r1].error = MsgTooLarge
    /\ IsUpload(r2) /\ inbox[r2].file.size = 5242880
    /\ pc[r2] = "done" /\ resp[r2].success

\* C2: a request whose form data has no `image' field is answered with HTTP
\* 400 and the message 'image file is required', and neither convertToWebP
\* nor uploadToS3 is called for it.
C2_MissingFileRejected ==
  \A r \in Reqs :
    (IsUpload(r) /\ inbox[r].file.kind = "none") =>
      /\ ~Called(r, "convertToWebP")
      /\ ~Called(r, "uploadToS3")
      /\ FormDataParsed(r) =>
           /\ pc[r] = "done"
           /\ resp[r].status = 400
           /\ resp[r].error = MsgFileRequired
           /\ ~resp[r].success

\* C2 witness: a request without `image' field has been answered.
C2_Witness ==
  \E r \in Reqs :
    /\ IsUpload(r) /\ inbox[r].file.kind = "none"
    /\ FormDataParsed(r) /\ resp[r].status = 400

\* C3: a convertToWebP call with a quality outside 1..100 fails with the
\* quality-range error without the codec being invoked with any quality
\* (none is clamped into range), and its caller never reaches uploadToS3.
C3_BadQualityFailsFast ==
  \A r \in Reqs :
    LET quality == inbox[r].convert.quality
    IN  (inbox[r].handler = "direct" /\ quality.given /\ quality.q \notin 1..100
           /\ pc[r] # "new") =>
          /\ pc[r] = "done"
          /\ Called(r, "convertToWebP")
          /\ thrown[r] = [name |-> "ImageProcessingError", message |-> MsgQualityRange,
                          code |-> "IMAGE_PROCESSING_ERROR"]
          /\ resp[r].field = "throw" /\ resp[r].error = MsgQualityRange
          /\ ~Called(r, "sharp")
          /\ codec[r] = NoCodec
          /\ ~Called(r, "uploadToS3")
          /\ ~Called(r, "send")

\* C3 witness: calls with quality 0 and with quality 101 have both failed.
C3_Witness ==
  \E r1, r2 \in Reqs :
    /\ inbox[r1].handler = "direct" /\ inbox[r1].convert.quality = [given |-> TRUE, q |-> 0]
    /\ inbox[r2].handler = "direct" /\ inbox[r2].convert.quality = [given |-> TRUE, q |-> 101]
    /\ pc[r1] = "done" /\ thrown[r1].name = "ImageProcessingError"
    /\ pc[r2] = "done" /\ thrown[r2].name = "ImageProcessingError"

\* request r has generated its storage key and handed the command to send
Generated(r) == Called(r, "send")
\* the first eight hexadecimal digits of a random draw
FirstEight(fraction) == SubSeq(fraction, 1, Min(8, Len(fraction)))
\* two requests read the clock within the same wall-clock second
SameSecond(r1, r2) == SecondOf(gen[r1].t) = SecondOf(gen[r2].t)
\* the prefix request r configured, 'images/' when it gave none
ConfiguredPrefix(r) ==
  IF IsUpload(r) THEN <<"i", "m", "a", "g", "e", "s", "/">>
  ELSE IF inbox[r].upload.prefix.some THEN inbox[r].upload.prefix.val
  ELSE <<"i", "m", "a", "g", "e", "s", "/">>

\* C4 as claimed: two uploadToS3 calls with the same prefix within the same
\* wall-clock second never generate the same key, never return the same URL
\* and never overwrite each other's object.
C4_KeysNeverRepeat ==
  /\ \A r1, r2 \in Reqs :
       (r1 # r2 /\ Generated(r1) /\ Generated(r2) /\ SameSecond(r1, r2)
          /\ ConfiguredPrefix(r1) = ConfiguredPrefix(r2)) =>
         /\ cmd[r1].Key # cmd[r2].Key
         /\ (resp[r1].success /\ resp[r2].success) => resp[r1].url # resp[r2].url
  /\ lost = {}

\* C4 as amended: uploadToS3 makes no uniqueness check.  For two calls with
\* the same prefix within the same wall-clock second the keys differ exactly
\* when the random strings (the first eight hexadecimal digits of the two
\* draws) differ; when they coincide both calls use the same key, successful
\* uploads return the same URL, and an object is only ever overwritten by an
\* upload to the same key.
C4_KeysDifferIffRandomStringsDiffer ==
  /\ \A r1, r2 \in Reqs :
       (r1 # r2 /\ Generated(r1) /\ Generated(r2) /\ SameSecond(r1, r2)
          /\ ConfiguredPrefix(r1) = ConfiguredPrefix(r2)) =>
         /\ cmd[r1].Key # cmd[r2].Key
              <=> FirstEight(gen[r1].fraction) # FirstEight(gen[r2].fraction)
         /\ (resp[r1].success /\ resp[r2].success) =>
              (resp[r1].url = resp[r2].url <=> cmd[r1].Key = cmd[r2].Key)
  /\ \A r1 \in lost :
       \E r2 \in Reqs : r2 # r1 /\ resp[r2].success /\ cmd[r2].Key = cmd[r1].Key

\* C4 witness: two uploads half a second apart within one second, with
\* different draws that share their first eight digits, wrote the same key
\* and the later one overwrote the earlier one.
C4_Witness ==
  \E r1, r2 \in Reqs :
    /\ r1 # r2 /\ resp[r1].success /\ resp[r2].success
    /\ gen[r1].t # gen[r2].t /\ SameSecond(r1, r2)
    /\ gen[r1].fraction # gen[r2].fraction
    /\ cmd[r1].Key = cmd[r2].Key
    /\ r1 \in lost

\* C5: when one of AWS_ACCESS_KEY_ID, AWS_SECRET_ACCESS_KEY, AWS_REGION and
\* S3_BUCKET_NAME is absent or empty, every uploadToS3 call fails with an
\* S3UploadError and never reaches s3Client.send.
C5_MissingEnvNoSend ==
  \A r \in Reqs :
    (Called(r, "uploadToS3")
       /\ \E v \in {"AWS_ACCESS_KEY_ID", "AWS_SECRET_ACCESS_KEY", "AWS_REGION",
                    "S3_BUCKET_NAME"} : ~env[v].some \/ env[v].val = <<>>) =>
      /\ pc[r] = "done"
      /\ thrown[r].name = "S3UploadError"
      /\ ~resp[r].success
      /\ ~Called(r, "send")
      /\ cmd[r] = NoCommand
      /\ store = {}

\* C5 witness: with an empty AWS_REGION a library call of uploadToS3 failed.
C5_Witness ==
  \E r \in Reqs :
    /\ env.AWS_REGION = Some(<<>>)
    /\ inbox[r].handler = "direct"
    /\ Called(r, "uploadToS3") /\ pc[r] = "done"
    /\ thrown[r].name = "S3UploadError"

HasBearer(request) ==
  /\ request.authorization.some
  /\ Len(request.authorization.val) > 7
  /\ SubSeq(request.authorization.val, 1, 7) = <<"B", "e", "a", "r", "e", "r", " ">>
\* a key location of the request holds a key
HasKey(o) == o.some /\ o.val # <<>>
\* the caller's key by precedence: Bearer, then X-API-Key, then api_key;
\* the empty text when no location holds a key
SelectedKey(request) ==
  IF HasBearer(request)
    THEN SubSeq(request.authorization.val, 8, Len(request.authorization.val))
  ELSE IF HasKey(request.xApiKey) THEN request.xApiKey.val
  ELSE IF HasKey(request.apiKey) THEN request.apiKey.val
  ELSE <<>>
\* the configured secret is set and the caller's key equals it
KeyMatches(request) ==
  /\ env.IMAGE_ROUTE_API_KEY.some
  /\ env.IMAGE_ROUTE_API_KEY.val # <<>>
  /\ SelectedKey(request) = env.IMAGE_ROUTE_API_KEY.val
\* the key check of request r succeeded: its handler went on to the form data
KeyAccepted(r) == Called(r, "formData")

\* C8: the key check takes the caller's key from the Bearer authorization
\* header, else from X-API-Key, else from the query parameter api_key, the
\* first location that holds a key deciding alone, and it succeeds exactly
\* when that key equals IMAGE_ROUTE_API_KEY.
C8_FirstKeyLocationDecides ==
  \A r \in Reqs :
    (inbox[r].handler = "apikey" /\ pc[r] # "new") =>
      /\ KeyAccepted(r) <=> KeyMatches(inbox[r])
      /\ ~KeyAccepted(r) => (pc[r] = "done" /\ ~resp[r].success)

\* C8 witness: a request with a wrong Bearer key and the right key in both
\* lower locations was refused, and one with a Basic authorization header,
\* an empty X-API-Key and the right api_key parameter was accepted.
C8_Witness ==
  \E r1, r2 \in Reqs :
    /\ inbox[r1].authorization = Bearer(Key2)
    /\ inbox[r1].xApiKey = Some(Key1) /\ inbox[r1].apiKey = Some(Key1)
    /\ env.IMAGE_ROUTE_API_KEY = Some(Key1)
    /\ pc[r1] = "done" /\ ~KeyAccepted(r1)
    /\ inbox[r2].authorization = Basic(Key1)
    /\ inbox[r2].xApiKey = Some(<<>>) /\ inbox[r2].apiKey = Some(Key1)
    /\ KeyAccepted(r2)

\* C9 as claimed: when IMAGE_ROUTE_API_KEY is not set, the authenticated
\* handler answers with a server-side failure (5xx), never a client error.
C9_MissingSecretIsServerError ==
  \A r \in Reqs :
    (inbox[r].handler = "apikey" /\ ~env.IMAGE_ROUTE_API_KEY.some /\ pc[r] = "done") =>
      /\ resp[r].status \notin 400..499
      /\ resp[r].status >= 500

\* C10: in the authenticated handler a request with a missing or invalid key
\* is answered with HTTP 401 and the key check's message without the form
\* data being parsed or convertToWebP / uploadToS3 being called; no parse,
\* transcode or storage call happens unless the key check succeeded.
C10_NoWorkWithoutValidKey ==
  \A r \in Reqs :
    inbox[r].handler = "apikey" =>
      /\ (pc[r] # "new" /\ HasKey(env.IMAGE_ROUTE_API_KEY) /\ ~KeyMatches(inbox[r])) =>
           /\ pc[r] = "done"
           /\ resp[r].status = 401
           /\ ~resp[r].success
           /\ resp[r].error = IF SelectedKey(inbox[r]) = <<>>
                              THEN MsgApiKeyRequired ELSE MsgApiKeyInvalid
           /\ log[r] = <<>>
      /\ (\E c \in {"formData", "arrayBuffer", "convertToWebP", "sharp",
                    "uploadToS3", "send"} : Called(r, c)) =>
           KeyMatches(inbox[r])

\* C10 witness: a request without any key and a request with a wrong key
\* have both been answered with 401.
C10_Witness ==
  \E r1, r2 \in Reqs :
    /\ HasKey(env.IMAGE_ROUTE_API_KEY)
    /\ inbox[r1].handler = "apikey" /\ SelectedKey(inbox[r1]) = <<>>
    /\ inbox[r2].handler = "apikey" /\ SelectedKey(inbox[r2]) = Key2
    /\ resp[r1].status = 401 /\ resp[r1].error = MsgApiKeyRequired
    /\ resp[r2].status = 401 /\ resp[r2].error = MsgApiKeyInvalid

\* request r has been answered after convertToWebP failed on it
ConvertFailed(r) ==
  /\ pc[r] = "done" /\ Called(r, "convertToWebP")
  /\ (Called(r, "sharp:throw") \/ ~Called(r, "sharp"))
\* request r has been answered after uploadToS3 failed on it
UploadFailed(r) ==
  /\ pc[r] = "done" /\ Called(r, "uploadToS3")
  /\ (Called(r, "send:throw") \/ ~Called(r, "send"))

\* C11: in the POST handlers every failure of convertToWebP is answered with
\* the image-processing prefix followed by the underlying message, every
\* failure of uploadToS3 with the S3-upload prefix followed by the underlying
\* message; within one handler both kinds of failure get the same HTTP
\* status, and neither is answered with the generic message of the outer catch.
C11_CategoryPrefixAndMessage ==
  /\ \A r \in Reqs :
       IsUpload(r) =>
         /\ ConvertFailed(r) =>
              /\ thrown[r].message \in {MsgSharp, MsgConvertFailed}
              /\ resp[r].error = PrefixImageProcessing \o thrown[r].message
              /\ resp[r].error # MsgUploadFailed
              /\ ~resp[r].success /\ resp[r].status >= 400
         /\ UploadFailed(r) =>
              /\ thrown[r].message \in {MsgS3, MsgS3Failed, MsgEnvMissing}
              /\ resp[r].error = PrefixS3Upload \o thrown[r].message
              /\ resp[r].error # MsgUploadFailed
              /\ ~resp[r].success /\ resp[r].status >= 400
  /\ \A r1, r2 \in Reqs :
       (/\ IsUpload(r1) /\ inbox[r1].handler = inbox[r2].handler
        /\ ConvertFailed(r1) \/ UploadFailed(r1)
        /\ ConvertFailed(r2) \/ UploadFailed(r2)) =>
         resp[r1].status = resp[r2].status

\* C11 witness: one handler has answered a request whose codec call threw
\* and a request whose put-object call threw, each with its prefix and the
\* message of the error thrown.
C11_Witness ==
  \E r1, r2 \in Reqs :
    /\ IsUpload(r1) /\ inbox[r1].handler = inbox[r2].handler
    /\ ConvertFailed(r1) /\ resp[r1].error = PrefixImageProcessing \o MsgSharp
    /\ UploadFailed(r2) /\ Called(r2, "send:throw")
    /\ resp[r2].error = PrefixS3Upload \o MsgS3

\* C12 as claimed: the POST handlers of route.ts answer image-processing and
\* S3-upload failures with HTTP 500, and answer with 400 only a missing file
\* and a file over the size ceiling.
C12_ProcessingAndStorageAre500 ==
  \A r \in Reqs :
    (inbox[r].handler \in {"static", "cors"} /\ pc[r] = "done") =>
      /\ (ConvertFailed(r) \/ UploadFailed(r)) => resp[r].status = 500
      /\ resp[r].status = 400 => resp[r].error \in {MsgFileRequired, MsgTooLarge}

\* request r has been answered after a step outside convertToWebP and
\* uploadToS3 threw
UnexpectedFailed(r) ==
  pc[r] = "done" /\ (Called(r, "formData:throw") \/ Called(r, "arrayBuffer:throw"))

\* C13: in the POST handlers a failure that is neither an ImageProcessingError
\* nor an S3UploadError (form-data parsing or buffer reading throwing) is
\* answered with HTTP 500 and the fixed generic message, and nothing of the
\* message of the exception thrown is in the response.
C13_UnexpectedIsGeneric500 ==
  \A r \in Reqs :
    (IsUpload(r) /\ UnexpectedFailed(r)) =>
      /\ thrown[r].name = "Error"
      /\ thrown[r].message \in {MsgFormData, MsgArrayBuffer, MsgNotAFunction}
      /\ [resp[r] EXCEPT !.headers = NoHeaders]
           = [status |-> 500, success |-> FALSE, error |-> MsgUploadFailed,
              field |-> "none", url |-> <<>>, headers |-> NoHeaders]
      /\ resp[r].error # thrown[r].message

\* C13 witness: a request whose form data could not be parsed and a request
\* whose file could not be read have both got the generic answer.
C13_Witness ==
  \E r1, r2 \in Reqs :
    /\ IsUpload(r1) /\ pc[r1] = "done" /\ Called(r1, "formData:throw")
    /\ thrown[r1].message = MsgFormData /\ resp[r1].error = MsgUploadFailed
    /\ IsUpload(r2) /\ pc[r2] = "done" /\ Called(r2, "arrayBuffer")
    /\ Called(r2, "arrayBuffer:throw")
    /\ thrown[r2].message = MsgArrayBuffer /\ resp[r2].error = MsgUploadFailed

\* the put-object call of request r was issued and has returned successfully
PutSucceeded(r) == pc[r] = "done" /\ Called(r, "send") /\ ~Called(r, "send:throw")
\* request r has written an object to the bucket, overwritten since or not
Stored(r) == (\E o \in store : o.owner = r) \/ r \in lost

\* C14: a POST handler returns a success response with a URL exactly when the
\* put-object call of that request was issued and returned successfully, and
\* the URL names the key that was written; whenever it returns an error
\* response, no object was stored for that request.
C14_NoPartialSuccess ==
  \A r \in Reqs :
    IsUpload(r) =>
      /\ pc[r] # "done" => (~Stored(r) /\ resp[r] = NoResponse)
      /\ pc[r] = "done" =>
           /\ resp[r].success <=> PutSucceeded(r)
           /\ resp[r].success =>
                /\ resp[r].status = 200 /\ resp[r].error = ""
                /\ resp[r].field = UrlField(inbox[r].handler)
                /\ resp[r].url # <<>>
                /\ EndsWith(resp[r].url, <<"/">> \o cmd[r].Key)
                /\ \E o \in store : o.Key = cmd[r].Key
                /\ Stored(r)
           /\ ~resp[r].success =>
                /\ resp[r].status \in {400, 401, 500}
                /\ resp[r].url = <<>>
                /\ ~Stored(r)

\* C14 witness: of two uploads that both reached the put-object call, one was
\* stored and answered with its URL, the other failed in the call and was
\* answered with an error while the bucket holds the first object only.
C14_Witness ==
  \E r1, r2 \in Reqs :
    /\ IsUpload(r1) /\ PutSucceeded(r1) /\ resp[r1].success
    /\ IsUpload(r2) /\ pc[r2] = "done" /\ Called(r2, "send:throw")
    /\ ~resp[r2].success
    /\ store = {[Key |-> cmd[r1].Key, owner |-> r1]}

\* the steps of one upload, in the order of the handler's text
Pipeline == <<"formData", "arrayBuffer", "convertToWebP", "sharp", "uploadToS3", "send">>
PipelineSteps == {Pipeline[i] : i \in DOMAIN Pipeline}
\* the collaborator calls that threw
Throws == {"formData:throw", "arrayBuffer:throw", "sharp:throw", "send:throw"}
\* the steps request r has executed, in order
StepsOf(r) == SelectSeq(log[r], LAMBDA c : c \in PipelineSteps)
\* request r failed at a step: a call threw, or a check or a utility refused
Failed(r) ==
  \/ \E i \in DOMAIN log[r] : log[r][i] \in Throws
  \/ pc[r] = "done" /\ ~resp[r].success

StepOf(r) ==
  Invoke(r) \/ FormDataReturn(r) \/ ArrayBufferReturn(r) \/ SharpReturn(r) \/ SendReturn(r)

\* the upload requests under the scheduling of the runtime: a handler that
\* can be invoked is invoked, and every awaited call returns or throws
Fairness == \A r \in Reqs : WF_vars(StepOf(r))
\* every kind of file to one handler, and one upload to each of the others,
\* with the right key, without key and with a wrong key
LiveRequests ==
  {Request("static", None, None, None, f) : f \in Files}
  \cup {Request("cors", None, None, None, Photo)}
  \cup {Request("apikey", a, None, None, Photo) : a \in {Bearer(Key1), None, Bearer(Key2)}}
InitLive == InitWith(PipelineEnvs, LiveRequests)
SpecLive == InitLive /\ [][Next]_vars /\ Fairness

\* the responses a POST handler can return: the success body with the URL,
\* or an error body with status 400, 401 or 500
IsSuccessResponse(rsp) ==
  /\ rsp.status = 200 /\ rsp.success /\ rsp.error = ""
  /\ rsp.field \in {"imageUrl", "fileName"} /\ rsp.url # <<>>
IsErrorResponse(rsp) ==
  /\ rsp.status \in {400, 401, 500} /\ ~rsp.success /\ rsp.error # ""
  /\ rsp.field = "none" /\ rsp.url = <<>>

\* C16: every request to a POST handler eventually receives a response and
\* keeps that one response for good; the response is the 200 success body
\* with a URL or an error body with status 400, 401 or 500, the handler
\* never leaving without a response.
C16_EveryRequestAnswered ==
  /\ \A r \in Reqs :
       <>[](/\ pc[r] = "done"
            /\ IsSuccessResponse(resp[r]) \/ IsErrorResponse(resp[r]))
  /\ [][\A r \in Reqs : resp'[r] # resp[r] => resp[r] = NoResponse]_vars

\* C16 witness: a stored upload has been answered with its URL, and a request
\* refused by the key check has been answered with 401.
C16_Witness ==
  \E r1, r2 \in Reqs :
    /\ pc[r1] = "done" /\ IsSuccessResponse(resp[r1]) /\ Stored(r1)
    /\ pc[r2] = "done" /\ IsErrorResponse(resp[r2]) /\ resp[r2].status = 401

\* how often an error object of class `name' has been constructed for request r
Tags(r, name) == Count(r, "new " \o name)
\* the utility called for request r failed with an error of its own making
\* (quality out of range, configuration missing), not one of its collaborator
OwnError(r) ==
  /\ pc[r] = "done" /\ thrown[r].name \in {"ImageProcessingError", "S3UploadError"}
  /\ ~Called(r, "sharp:throw") /\ ~Called(r, "send:throw")
\* the messages as raised, before any prefix is put in front of them
RawMessages ==
  {MsgSharp, MsgConvertFailed, MsgQualityRange, MsgS3, MsgS3Failed, MsgEnvMissing}
\* the prefix the handlers put in front of the message of an error of class `name'
CategoryPrefix(name) ==
  IF name = "ImageProcessingError" THEN PrefixImageProcessing ELSE PrefixS3Upload

\* C17 as claimed: an error raised inside convertToWebP or uploadToS3, their
\* own quality-range and missing-environment errors included, is made an
\* ImageProcessingError / S3UploadError at most one time below the handler,
\* and the handler adds the category prefix exactly once.
C17_TaggedAtMostOnce ==
  \A r \in Reqs :
    (pc[r] = "done" /\ thrown[r].name \in {"ImageProcessingError", "S3UploadError"}) =>
      /\ Tags(r, "ImageProcessingError") + Tags(r, "S3UploadError") <= 1
      /\ IsUpload(r) => resp[r].error = CategoryPrefix(thrown[r].name) \o thrown[r].message

\* C17 amended: an error of the codec or of the storage client is made an
\* ImageProcessingError / S3UploadError once, by the catch of the utility; the
\* utilities' own quality-range and missing-environment errors are constructed
\* as such an error and constructed a second time by that same catch, with
\* the same class and message.  Either way the error a caller receives carries
\* the message as raised, no error of the other class is ever constructed,
\* and a handler puts the category prefix in front of that message once.
C17_OwnErrorsTaggedTwice ==
  \A r \in Reqs :
    (pc[r] = "done" /\ thrown[r].name \in {"ImageProcessingError", "S3UploadError"}) =>
      /\ Tags(r, thrown[r].name) = IF OwnError(r) THEN 2 ELSE 1
      /\ Tags(r, "ImageProcessingError") + Tags(r, "S3UploadError") = Tags(r, thrown[r].name)
      /\ OwnError(r) <=> thrown[r].message \in {MsgQualityRange, MsgEnvMissing}
      /\ thrown[r].message \in RawMessages
      /\ resp[r].error = IF IsUpload(r)
                         THEN CategoryPrefix(thrown[r].name) \o thrown[r].message
                         ELSE thrown[r].message

\* C17 witness: a handler has answered an upload that found the bucket name
\* missing, with the prefix once and two S3UploadError objects constructed,
\* and a library call with quality out of range has thrown after two
\* ImageProcessingError objects were constructed.
C17_Witness ==
  \E r1, r2 \in Reqs :
    /\ IsUpload(r1) /\ OwnError(r1) /\ Tags(r1, "S3UploadError") = 2
    /\ resp[r1].error = PrefixS3Upload \o MsgEnvMissing
    /\ ~IsUpload(r2) /\ OwnError(r2) /\ Tags(r2, "ImageProcessingError") = 2
    /\ resp[r2].error = MsgQualityRange

\* C18 as claimed: a request whose `image' field is absent, empty or a text
\* value that is no file is answered with HTTP 400 and the missing-file
\* message, never with the generic 500.
C18_NonFileImageIs400 ==
  \A r \in Reqs :
    (IsUpload(r) /\ inbox[r].file.kind \in {"none", "text"} /\ FormDataParsed(r)) =>
      /\ pc[r] = "done"
      /\ resp[r].status = 400
      /\ resp[r].error = MsgFileRequired

\* the decimal digits and the lowercase hexadecimal digits
DecimalDigits == {Digits[i] : i \in DOMAIN Digits}
LowerHex == DecimalDigits \cup {"a", "b", "c", "d", "e", "f"}

\* C19 as claimed: every generated key is the configured prefix, a timestamp
\* of exactly 15 characters YYYYMMDD_HHmmss, an underscore, a random suffix
\* of exactly 8 lowercase hexadecimal characters and '.webp', for every value
\* the random source can return.
C19_KeyShapeFixed ==
  \A r \in Reqs :
    Generated(r) =>
      LET key == cmd[r].Key
          prefix == ConfiguredPrefix(r)
          rest == SubSeq(key, Len(prefix) + 1, Len(key))
      IN  /\ StartsWith(key, prefix)
          /\ Len(rest) = 15 + 1 + 8 + 5
          /\ \A i \in (1..8) \cup (10..15) : rest[i] \in DecimalDigits
          /\ rest[9] = "_" /\ rest[16] = "_"
          /\ \A i \in 17..24 : rest[i] \in LowerHex
          /\ SubSeq(rest, 25, 29) = <<".", "w", "e", "b", "p">>

\* stem is name without its extension: without its last dot and the
\* characters after it, when there are such characters and none is a slash
IsStemOf(stem, name) ==
  LET cuts == {k \in 1..(Len(name) - 1) :
                 /\ name[k] = "."
                 /\ \A j \in (k + 1)..Len(name) : name[j] \notin {".", "/"}}
  IN  IF cuts = {} THEN stem = name
      ELSE \E k \in cuts : stem = SubSeq(name, 1, k - 1)

\* C20: every put-object call issued by a POST handler carries the content
\* type 'image/webp', as body the buffer convertToWebP returned for the bytes
\* of the uploaded file, unmodified, and as metadata exactly originalName,
\* the file name with its extension stripped, and originalType, the MIME type
\* the file was declared with.
C20_PutObjectContents ==
  \A r \in Reqs :
    (IsUpload(r) /\ Called(r, "send")) =>
      /\ cmd[r].ContentType = Some(<<"i", "m", "a", "g", "e", "/", "w", "e", "b", "p">>)
      /\ cmd[r].Body = [webpOf |-> inbox[r].file.bytes, quality |-> 85]
      /\ codec[r].input = inbox[r].file.bytes
      /\ DOMAIN cmd[r].Metadata = {"given", "originalName", "originalType"}
      /\ cmd[r].Metadata.given
      /\ IsStemOf(cmd[r].Metadata.originalName, inbox[r].file.name)
      /\ cmd[r].Metadata.originalType = inbox[r].file.type

\* C20 witness: the upload of trip.v2.jpeg, declared image/jpeg, has been
\* handed to put-object with originalName trip.v2.
C20_Witness ==
  \E r \in Reqs :
    /\ IsUpload(r) /\ Called(r, "send") /\ inbox[r].file = Renamed
    /\ cmd[r].Metadata.originalName = <<"t", "r", "i", "p", ".", "v", "2">>
    /\ cmd[r].Metadata.originalType = <<"i", "m", "a", "g", "e", "/", "j", "p", "e", "g">>
    /\ cmd[r].Body.webpOf = "photo"

\* the codec has been called for request r
CodecCalled(r) == Called(r, "sharp")
\* the codec was asked to resize for request r
ResizeRequested(r) == codec[r].resize.fit # "none"

\* C21: convertToWebP asks the codec for a resize, with fit 'inside' and
\* without enlargement, exactly when a width or a height is supplied (a
\* non-zero number; 0 and null are both falsy to the code), and asks for none
\* otherwise; the POST handlers call convertToWebP with quality 85 and
\* neither width nor height, so no upload is resized; a call that gives no
\* quality is transcoded with quality 80.
C21_ResizeOnlyOnRequest ==
  \A r \in Reqs :
    CodecCalled(r) =>
      /\ IsUpload(r) =>
           /\ codec[r].quality = 85
           /\ ~ResizeRequested(r)
      /\ ~IsUpload(r) =>
           /\ ResizeRequested(r) <=>
                (inbox[r].convert.width # 0 \/ inbox[r].convert.height # 0)
           /\ ~inbox[r].convert.quality.given => codec[r].quality = 80
           /\ inbox[r].convert.quality.given => codec[r].quality = inbox[r].convert.quality.q
      /\ ResizeRequested(r) =>
           codec[r].resize = [width |-> inbox[r].convert.width,
                              height |-> inbox[r].convert.height,
                              fit |-> "inside", withoutEnlargement |-> TRUE]
      /\ ~ResizeRequested(r) =>
           codec[r].resize = [width |-> 0, height |-> 0,
                              fit |-> "none", withoutEnlargement |-> FALSE]

\* C21 witness: a library call that gave only a width has asked the codec for
\* a resize at quality 80, and an upload has asked for quality 85 and no resize.
C21_Witness ==
  \E r1, r2 \in Reqs :
    /\ ~IsUpload(r1) /\ CodecCalled(r1)
    /\ inbox[r1].convert.width = 800 /\ inbox[r1].convert.height = 0
    /\ ResizeRequested(r1) /\ codec[r1].quality = 80
    /\ IsUpload(r2) /\ CodecCalled(r2)
    /\ codec[r2].quality = 85 /\ ~ResizeRequested(r2)

\* the codes errors.ts documents for storage failures that come from the
\* storage service: authentication, permission, network, bucket access
ServiceFailureCodes ==
  {"AUTH_FAILED", "PERMISSION_DENIED", "NETWORK_ERROR", "BUCKET_ACCESS_FAILED"}

\* C22 as claimed: a storage failure carries a code that names its cause: a
\* missing environment variable gives an S3UploadError with code ENV_MISSING,
\* which differs from the code of a failure of the put-object call.
C22_CodeNamesCause ==
  \A r1, r2 \in Reqs :
    /\ (UploadFailed(r1) /\ OwnError(r1)) => thrown[r1].code = "ENV_MISSING"
    /\ (UploadFailed(r1) /\ OwnError(r1) /\ UploadFailed(r2) /\ Called(r2, "send:throw")) =>
         /\ thrown[r2].code # thrown[r1].code
         /\ thrown[r2].code \in ServiceFailureCodes

\* the Origin header of a request: absent, empty, each allowed origin, an
\* origin that is not allowed, and an allowed origin with another port
Origins ==
  {NoHeader, Header("")} \cup {Header(o) : o \in ALLOWED_ORIGINS}
  \cup {Header("https://evil.example"), Header("http://localhost:3001")}

\* requests to the two handlers that use getCorsHeaders: from every origin
\* the preflight, a request without file and a request without key, and
\* from three of the origins an upload
CorsRequests ==
  {[Request(h, None, None, None, Photo) EXCEPT !.method = "OPTIONS", !.origin = o] :
     h \in {"cors", "apikey"}, o \in Origins}
  \cup {[Request("cors", None, None, None, NoFile) EXCEPT !.origin = o] : o \in Origins}
  \cup {[Request("apikey", None, None, None, Photo) EXCEPT !.origin = o] : o \in Origins}
  \cup {[Request(h, IF h = "apikey" THEN Bearer(Key1) ELSE None, None, None, Photo)
           EXCEPT !.origin = o] :
          h \in {"cors", "apikey"},
          o \in {NoHeader, Header("https://vansdevblog.online"), Header("https://evil.example")}}
InitCors == InitWith({FullEnv}, CorsRequests)
SpecCors == InitCors /\ [][Next]_vars

\* request r went to a handler that builds its headers with getCorsHeaders
UsesGetCorsHeaders(r) == inbox[r].handler \in {"cors", "apikey"}
\* the Origin of request r is one of the three allowed origins
OriginAllowed(r) ==
  \E o \in {"http://localhost:3000", "http://localhost:3002", "https://vansdevblog.online"} :
    inbox[r].origin = [some |-> TRUE, val |-> o]

\* C23: in the handlers that use getCorsHeaders every response, of POST with
\* status 200, 400, 401 or 500 and of OPTIONS, carries the CORS headers with
\* the allowed methods 'POST, OPTIONS', and carries Access-Control-Allow-Origin
\* exactly when the Origin of the request is in the allow-list, its value
\* then being that one origin.
C23_CorsHeadersOnEveryResponse ==
  \A r \in Reqs :
    (UsesGetCorsHeaders(r) /\ pc[r] = "done") =>
      /\ resp[r].status \in {200, 400, 401, 500}
      /\ resp[r].headers.allowMethods = "POST, OPTIONS"
      /\ resp[r].headers.maxAge = "86400"
      /\ resp[r].headers.allowHeaders \in
           {"Content-Type, Authorization", "Content-Type, Authorization, X-API-Key"}
      /\ resp[r].headers.allowOrigin.some <=> OriginAllowed(r)
      /\ resp[r].headers.allowOrigin.some =>
           resp[r].headers.allowOrigin = inbox[r].origin

\* C23 witness: an upload from an allowed origin was stored and its 200
\* response names that origin, a preflight from an origin that is not allowed
\* was answered without Access-Control-Allow-Origin.
C23_Witness ==
  \E r1, r2 \in Reqs :
    /\ UsesGetCorsHeaders(r1) /\ inbox[r1].method = "POST" /\ pc[r1] = "done"
    /\ inbox[r1].origin = Header("https://vansdevblog.online")
    /\ resp[r1].status = 200 /\ resp[r1].success
    /\ resp[r1].headers.allowOrigin = Header("https://vansdevblog.online")
    /\ UsesGetCorsHeaders(r2) /\ inbox[r2].method = "OPTIONS" /\ pc[r2] = "done"
    /\ inbox[r2].origin = Header("https://evil.example")
    /\ resp[r2].status = 200 /\ ~resp[r2].headers.allowOrigin.some
    /\ resp[r2].headers.allowMethods = "POST, OPTIONS"

\* the kind of answer request r gets when it runs alone: decided by its own
\* input, the configuration and the outcomes of its own collaborator calls
AloneCategory(r) ==
  LET request == inbox[r]
      file == request.file
  IN  IF request.handler = "apikey" /\ ~KeyMatches(request) THEN "auth"
      ELSE IF Called(r, "formData:throw") THEN "unexpected"
      ELSE IF file.kind = "none" \/ (file.kind = "text" /\ file.bytes = "")
        THEN "validation"
      ELSE IF file.kind = "file" /\ file.size > 5 * 1024 * 1024 THEN "validation"
      ELSE IF Called(r, "arrayBuffer:throw") THEN "unexpected"
      ELSE IF Called(r, "sharp:throw") THEN "processing"
      ELSE IF \E v \in EnvVars : ~env[v].some \/ env[v].val = <<>> THEN "storage"
      ELSE IF Called(r, "send:throw") THEN "storage"
      ELSE "success"
\* the status the handlers give an answer of each kind
StatusOfCategory(category) ==
  IF category = "success" THEN 200
  ELSE IF category = "auth" THEN 401
  ELSE IF category = "unexpected" THEN 500
  ELSE 400
\* the kind of answer a response is, read off its body
CategoryOf(rsp) ==
  IF rsp.success THEN "success"
  ELSE IF rsp.error \in {MsgApiKeyNotConfigured, MsgApiKeyRequired, MsgApiKeyInvalid}
    THEN "auth"
  ELSE IF rsp.error \in {MsgFileRequired, MsgTooLarge} THEN "validation"
  ELSE IF rsp.error \in {PrefixImageProcessing \o m : m \in {MsgSharp, MsgConvertFailed}}
    THEN "processing"
  ELSE IF rsp.error \in {PrefixS3Upload \o m : m \in {MsgS3, MsgS3Failed, MsgEnvMissing}}
    THEN "storage"
  ELSE "unexpected"

\* C24: requests share no mutable state: one storage client, constructed at
\* module load, is the only one there ever is and so the one every upload
\* uses; no step of a handler writes the configuration or constructs a
\* client; and under every interleaving of the requests in flight each
\* request is answered with the status and the error category it gets when
\* it runs alone with the same outcomes of its collaborator calls.
C24_NoSharedMutableState ==
  /\ [](/\ Len(s3Clients) = 1
        /\ \A r \in Reqs :
             (IsUpload(r) /\ pc[r] = "done") =>
               /\ CategoryOf(resp[r]) = AloneCategory(r)
               /\ resp[r].status = StatusOfCategory(AloneCategory(r)))
  /\ [][env' = env /\ s3Clients' = s3Clients]_vars

\* C24 witness: two uploads were in flight together, generated the same key
\* and were both stored, the later overwriting the earlier, and both were
\* answered with 200 as each would have been alone.
C24_Witness ==
  \E r1, r2 \in Reqs :
    /\ r1 # r2 /\ IsUpload(r1) /\ IsUpload(r2)
    /\ pc[r1] = "done" /\ pc[r2] = "done"
    /\ cmd[r1].Key = cmd[r2].Key /\ r1 \in lost
    /\ resp[r1].status = 200 /\ resp[r2].status = 200
    /\ Len(s3Clients) = 1

====
